---- MODULE Spec2Model ----
(***************************************************************************)
(* MindForge: the persistence layer (src/database.py, DatabaseManager)     *)
(* over its SQLite schema, and the UI handlers of src/tkinter_app.py that  *)
(* write to the same tables.                                               *)
(*                                                                         *)
(* Every DatabaseManager method opens a connection with foreign keys ON    *)
(* and runs its statements in one transaction: `with conn` commits when    *)
(* the body returns and rolls back when it raises.  A method is therefore  *)
(* modelled as one atomic action that either installs the database it      *)
(* computed or leaves the tables as they were.                             *)
(*                                                                         *)
(* Text (titles, tag names) is a sequence of one-character strings, so     *)
(* that strip() and lower() are computed and not assumed.                  *)
(***************************************************************************)
EXTENDS Integers, Sequences, FiniteSets, TLC

\* ------------------------------------------------------------------ bounds
MaxTopics == 3      \* topic rows ever inserted
MaxNotes == 1       \* note rows stored at a time
MaxNoteIds == 2     \* note ids ever issued
MaxBlocks == 2      \* length of note.blocks handed to save_note
MaxTags == 1        \* length of note.tags handed to save_note
MaxTagRows == 2     \* tag rows ever inserted
MaxShownTopics == 1  \* topics added through the window
MaxLinkedTopics == 2 \* topic rows inserted where every kind of reference is made
MaxParts == 2       \* blocks and tags together in one saved note

\* Topic.NAME_MAX_LENGTH and Note.TITLE_MAX_LENGTH
NAME_MAX_LENGTH == 100
TITLE_MAX_LENGTH == 200

\* Python None / SQL NULL in an integer column (row ids start at 1)
NoneId == 0

VARIABLES
    topics,          \* table topics:    id -> [name, parent_id]
    notes,           \* table notes:     id -> [title, topic_id]
    blocks,          \* table blocks:    set of rows, id is the primary key
    tags,            \* table tags:      id -> name
    note_tags,       \* table note_tags: set of <<note_id, tag_id>>
    topicSeq,        \* sqlite_sequence of topics (AUTOINCREMENT)
    noteSeq,         \* sqlite_sequence of notes
    tagSeq,          \* sqlite_sequence of tags
    current_note_id, \* NoteTakingApp.current_note_id
    selection,       \* topics_tree.selection(): the topic id of the selected item,
                     \* NoneId for the root item, which carries no values
    self_blocks,     \* NoteTakingApp.blocks, the blocks in the editor
    held_open,       \* a connection that _get_connection opened is still open
    pre,             \* the tables as they were when the last call started
    last,            \* the last call: [op, args, ret]
    deleted          \* the ids of the note rows removed so far

vars == <<topics, notes, blocks, tags, note_tags, topicSeq, noteSeq, tagSeq,
          current_note_id, selection, self_blocks, held_open, pre, last,
          deleted>>

\* the state of the window
ui == <<current_note_id, selection, self_blocks>>

\* ------------------------------------------------------------------- text
Space == " "

\* str.lower() on the alphabet used here
LowerChar(c) == CASE c = "F" -> "f"
                  [] c = "G" -> "g"
                  [] c = "T" -> "t"
                  [] OTHER   -> c

Lower(s) == [i \in 1..Len(s) |-> LowerChar(s[i])]

RECURSIVE LStrip(_)
LStrip(s) == IF s # <<>> /\ Head(s) = Space THEN LStrip(Tail(s)) ELSE s

RECURSIVE RStrip(_)
RStrip(s) == IF s # <<>> /\ s[Len(s)] = Space
             THEN RStrip(SubSeq(s, 1, Len(s) - 1)) ELSE s

\* str.strip()
Strip(s) == RStrip(LStrip(s))

\* ----------------------------------------------------------- the database
\* The tables as one value, so that a transaction can be computed and then
\* committed or dropped.
DB == [topics |-> topics, notes |-> notes, blocks |-> blocks, tags |-> tags,
       note_tags |-> note_tags, topicSeq |-> topicSeq, noteSeq |-> noteSeq,
       tagSeq |-> tagSeq]

EmptyDB == [topics |-> <<>>, notes |-> <<>>, blocks |-> {}, tags |-> <<>>,
            note_tags |-> {}, topicSeq |-> 0, noteSeq |-> 0, tagSeq |-> 0]

Restrict(f, S) == [x \in S |-> f[x]]

\* one more row in a table keyed by id
WithRow(f, id, row) == [x \in DOMAIN f \cup {id} |-> IF x = id THEN row ELSE f[x]]

\* conn.commit(): the computed database becomes the stored one
Install(d) ==
    /\ topics' = d.topics
    /\ notes' = d.notes
    /\ blocks' = d.blocks
    /\ tags' = d.tags
    /\ note_tags' = d.note_tags
    /\ topicSeq' = d.topicSeq
    /\ noteSeq' = d.noteSeq
    /\ tagSeq' = d.tagSeq

\* results of a call
Ok(v)     == [kind |-> "ok", val |-> v, exc |-> "none"]
Raised(e) == [kind |-> "raised", val |-> NoneId, exc |-> e]

\* no call is being looked at
Idle == [op |-> "idle", args |-> [none |-> NoneId], ret |-> Ok(NoneId)]

\* the calls that come back without a call of _get_connection: save_note and
\* get_note when their first check raised ValueError, search_notes when its
\* guard returned (every search past the guard raises), the handlers of the
\* window on the paths that call no operation of the store
NoConnection(op, args, ret) ==
    \/ op \in {"save_note", "get_note"} /\ ret.exc = "ValueError"
    \/ op = "search_notes" /\ ret.kind = "ok"
    \/ op \in {"save_current_note", "close_current_note"}
          /\ (args.from = NoneId
                \/ (args.title_var # <<>> /\ Strip(args.title_var) = <<>>))
    \/ op = "rename_note"
          /\ (Strip(args.entry) = <<>>
                \/ Strip(args.entry) = notes[args.note_id].title)
    \/ op = "delete_note_with_confirmation" /\ ~args.confirm
    \/ op = "_delete_topic_from_context" /\ ~args.confirm

\* `with self._get_connection() as conn:` the connection object commits or
\* rolls back when the block is left and is not closed; no operation calls
\* conn.close()
ClosesConnection(op) == FALSE

\* a call that ran: remembers the tables it started from, what it returned
\* and the note rows it removed
Called(op, args, ret, d) ==
    /\ pre' = DB
    /\ held_open' = (held_open
                        \/ (~NoConnection(op, args, ret) /\ ~ClosesConnection(op)))
    /\ last' = [op |-> op, args |-> args, ret |-> ret]
    /\ deleted' = deleted \cup (DOMAIN notes \ DOMAIN d.notes)
    /\ Install(d)

\* the caller has taken the result: the record of the call is dropped, the
\* tables stay
Return ==
    /\ last # Idle
    /\ last' = Idle
    /\ pre' = EmptyDB
    /\ UNCHANGED <<topics, notes, blocks, tags, note_tags, topicSeq, noteSeq,
                   tagSeq, ui, held_open, deleted>>

\* the garbage collector of the interpreter finds the connection objects that
\* nothing refers to any more and sqlite3 closes them; an exception that the
\* caller still handles refers, through its traceback, to the connection of
\* the call that raised it
collect ==
    /\ held_open
    /\ last.ret.kind # "raised"
    /\ held_open' = FALSE
    /\ UNCHANGED <<topics, notes, blocks, tags, note_tags, topicSeq, noteSeq,
                   tagSeq, ui, pre, last, deleted>>

\* ------------------------------------------------ notions of the claims
\* a tag name as the specification normalizes it: trimmed, then lowercased
Normalized(name) == Lower(Strip(name))

\* the names of the tags linked to a note
TagNamesOf(d, note_id) ==
    {d.tags[nt[2]] : nt \in {x \in d.note_tags : x[1] = note_id}}

\* the rows of table blocks that belong to a note
BlockRowsOf(d, note_id) == {b \in d.blocks : b.note_id = note_id}

\* the topics of S and the topics of tp below them along parent_id
RECURSIVE Below(_, _)
Below(tp, S) ==
    LET kids == {t \in DOMAIN tp : tp[t].parent_id \in S} \ S
    IN  IF kids = {} THEN S ELSE Below(tp, S \cup kids)

\* the topics of S and the topics of tp above them along parent_id
RECURSIVE Above(_, _)
Above(tp, S) ==
    LET more == {tp[t].parent_id : t \in S \cap DOMAIN tp} \ (S \cup {NoneId})
    IN  IF more = {} THEN S ELSE Above(tp, S \cup more)

\* the parent of t, its parent, and so on
Ancestors(tp, t) == Above(tp, {tp[t].parent_id} \ {NoneId})

\* t is root or lies below root along parent_id in the topics table tp
InSubtree(tp, root, t) == t \in Below(tp, {root})

\* the topics of tp at or below the topics of S
Subtree(tp, S) == {t \in DOMAIN tp : \E r \in S : InSubtree(tp, r, t)}

\* ------------------------------------------------- foreign keys (schema)
\* DeleteNoteRows with blocks.note_id lacking ON DELETE CASCADE
DeleteNoteRowsKeepBlocks(d, S) ==
    [d EXCEPT !.notes = Restrict(d.notes, DOMAIN d.notes \ S),
              !.note_tags = {nt \in d.note_tags : nt[1] \notin S}]

\* DELETE FROM notes WHERE id IN S, with blocks.note_id and note_tags.note_id
\* ON DELETE CASCADE
DeleteNoteRows(d, S) ==
    [d EXCEPT !.notes = Restrict(d.notes, DOMAIN d.notes \ S),
              !.blocks = {b \in d.blocks : b.note_id \notin S},
              !.note_tags = {nt \in d.note_tags : nt[1] \notin S}]

\* CascadeTopics with the cascade stopping at the direct children
CascadeTopicsOneLevel(tp, S) ==
    S \cup {t \in DOMAIN tp : tp[t].parent_id \in S}

\* the rows removed by topics.parent_id ON DELETE CASCADE once S is removed
RECURSIVE CascadeTopics(_, _)
CascadeTopics(tp, S) ==
    LET kids == {t \in DOMAIN tp : tp[t].parent_id \in S} \ S
    IN  IF kids = {} THEN S ELSE CascadeTopics(tp, S \cup kids)

\* DeleteTopicRows with notes.topic_id set to NULL for the topics named in the
\* statement only, not for the topics the cascade removes
DeleteTopicRowsNamedOnly(d, S) ==
    LET gone == CascadeTopics(d.topics, S \cap DOMAIN d.topics)
    IN  [d EXCEPT !.topics = Restrict(d.topics, DOMAIN d.topics \ gone),
                  !.notes = [n \in DOMAIN d.notes |->
                               IF d.notes[n].topic_id \in S
                               THEN [d.notes[n] EXCEPT !.topic_id = NoneId]
                               ELSE d.notes[n]]]

\* DELETE FROM topics WHERE id IN S: child topics go with their parent
\* (ON DELETE CASCADE) and notes.topic_id of every removed topic becomes NULL
\* (ON DELETE SET NULL)
DeleteTopicRows(d, S) ==
    LET gone == CascadeTopics(d.topics, S \cap DOMAIN d.topics)
    IN  [d EXCEPT !.topics = Restrict(d.topics, DOMAIN d.topics \ gone),
                  !.notes = [n \in DOMAIN d.notes |->
                               IF d.notes[n].topic_id \in gone
                               THEN [d.notes[n] EXCEPT !.topic_id = NoneId]
                               ELSE d.notes[n]]]

\* NextRowId for INTEGER PRIMARY KEY without AUTOINCREMENT: one more than the
\* largest id stored now
NextRowIdOfStored(seq, rows) ==
    IF DOMAIN rows = {} THEN 1
    ELSE (CHOOSE m \in DOMAIN rows : \A x \in DOMAIN rows : x <= m) + 1

\* INTEGER PRIMARY KEY AUTOINCREMENT: the id of a new row is one more than the
\* largest id the table ever held, kept in sqlite_sequence
NextRowId(seq, rows) == seq + 1

\* TopicRefOk with PRAGMA foreign_keys left OFF
TopicRefUnchecked(d, id) == TRUE

\* FOREIGN KEY (x) REFERENCES topics (id): NULL or an existing row
TopicRefOk(d, id) == id = NoneId \/ id \in DOMAIN d.topics

\* CHECK (LENGTH(TRIM(title)) > 0)
TitleCheckOk(title) == Len(Strip(title)) > 0

\* ------------------------------------------------------------ topic store
\* DatabaseManager.create_topic: the foreign key on parent_id is checked when
\* the INSERT statement ends, against the table that already holds the new
\* row, so a parent_id equal to the id the new row receives is accepted
create_topic(name, parent_id) ==
    /\ last = Idle
    /\ topicSeq < MaxTopics
    /\ LET d1 == [DB EXCEPT !.topics = WithRow(topics, topicSeq + 1,
                                    [name |-> name, parent_id |-> parent_id]),
                            !.topicSeq = topicSeq + 1]
       IN  IF TopicRefOk(d1, parent_id)
           THEN Called("create_topic", [name |-> name, parent_id |-> parent_id],
                       Ok(topicSeq + 1), d1)
           ELSE Called("create_topic", [name |-> name, parent_id |-> parent_id],
                       Raised("IntegrityError"), DB)
    /\ UNCHANGED ui

\* DatabaseManager.create_note
create_note(title, topic_id) ==
    /\ last = Idle
    /\ noteSeq < MaxNoteIds
    /\ IF TopicRefOk(DB, topic_id) /\ TitleCheckOk(title)
       THEN Called("create_note", [title |-> title, topic_id |-> topic_id],
                   Ok(NextRowId(noteSeq, notes)),
                   [DB EXCEPT !.notes = WithRow(notes, NextRowId(noteSeq, notes),
                                    [title |-> title, topic_id |-> topic_id]),
                              !.noteSeq = NextRowId(noteSeq, notes)])
       ELSE Called("create_note", [title |-> title, topic_id |-> topic_id],
                   Raised("IntegrityError"), DB)
    /\ UNCHANGED ui

\* the statements of delete_topic, before the commit
DeleteTopicDB(d, topic_id, delete_notes) ==
    LET d1 == IF delete_notes
              THEN DeleteNoteRows(d, {n \in DOMAIN d.notes :
                                          d.notes[n].topic_id = topic_id})
              ELSE [d EXCEPT !.notes = [n \in DOMAIN d.notes |->
                               IF d.notes[n].topic_id = topic_id
                               THEN [d.notes[n] EXCEPT !.topic_id = NoneId]
                               ELSE d.notes[n]]]
    IN  DeleteTopicRows(d1, {topic_id})

\* DatabaseManager.delete_topic: returns cursor.rowcount > 0 of the DELETE on
\* topics, 1 = True, 0 = False
delete_topic(topic_id, delete_notes) ==
    /\ last = Idle
    /\ Called("delete_topic",
              [topic_id |-> topic_id, delete_notes |-> delete_notes],
              Ok(IF topic_id \in DOMAIN topics THEN 1 ELSE 0),
              DeleteTopicDB(DB, topic_id, delete_notes))
    /\ UNCHANGED ui

\* the recursive query `subtopics` of _delete_topic_from_context: the topic
\* and everything below it along parent_id
RECURSIVE Subtopics(_, _)
Subtopics(tp, S) ==
    LET more == {t \in DOMAIN tp : tp[t].parent_id \in S} \ S
    IN  IF more = {} THEN S ELSE Subtopics(tp, S \cup more)

\* NoteTakingApp._delete_topic_from_context: the handler of the topic context
\* menu; topic_id is the selected tree item, confirm the answer to askyesno
_delete_topic_from_context(topic_id, confirm) ==
    /\ last = Idle
    /\ topic_id \in DOMAIN topics
    /\ IF confirm
       THEN LET sub == Subtopics(topics, {topic_id})
                d1 == DeleteNoteRows(DB, {n \in DOMAIN notes :
                                             notes[n].topic_id \in sub})
            IN  /\ Called("_delete_topic_from_context",
                          [topic_id |-> topic_id, confirm |-> confirm],
                          Ok(NoneId), DeleteTopicRows(d1, sub))
                /\ current_note_id' = NoneId
                /\ self_blocks' = <<>>
                /\ selection' = NoneId
       ELSE /\ Called("_delete_topic_from_context",
                      [topic_id |-> topic_id, confirm |-> confirm],
                      Ok(NoneId), DB)
            /\ UNCHANGED ui

\* ------------------------------------------------------------- note store
\* DatabaseManager.delete_note: returns cursor.rowcount > 0, 1 = True
delete_note(note_id) ==
    /\ last = Idle
    /\ Called("delete_note", [note_id |-> note_id],
              Ok(IF note_id \in DOMAIN notes THEN 1 ELSE 0),
              DeleteNoteRows(DB, {note_id}))
    /\ UNCHANGED ui

\* BlockType: the values of the enumeration
BlockTypeValues == {"text", "heading", "bullet_list", "numbered_list",
                    "checklist", "divider"}

\* an element of note.blocks: a models.Block, or some other object
Block(id, type, level) == [kind |-> "Block", id |-> id, type |-> type, level |-> level]
Object == [kind |-> "object", id |-> "", type |-> "", level |-> 0]

\* hasattr(block, 'type') and hasattr(block, 'content')
HasTypeAndContent(b) == b.kind = "Block"

\* Block.validate returns without raising: a non-empty id, a type of the
\* enumeration, a level from 1 to 6 (content and items are well-typed in every
\* Block built here)
BlockValidates(b) ==
    /\ b.kind = "Block"
    /\ b.id # ""
    /\ b.type \in BlockTypeValues
    /\ b.level >= 1 /\ b.level <= 6

\* the position save_note stores for the block at index i of note.blocks
BlockPosition(i) == i

\* BlockInsertOk with a key of blocks made of note_id and id
BlockInsertOkPerNote(d, row) ==
    /\ \A b \in d.blocks : ~(b.id = row.id /\ b.note_id = row.note_id)
    /\ row.note_id \in DOMAIN d.notes
    /\ row.level >= 1 /\ row.level <= 6
    /\ row.position >= 0

\* INSERT INTO blocks: PRIMARY KEY (id), FOREIGN KEY (note_id),
\* CHECK (level BETWEEN 1 AND 6), CHECK (position >= 0)
BlockInsertOk(d, row) ==
    /\ \A b \in d.blocks : b.id # row.id
    /\ row.note_id \in DOMAIN d.notes
    /\ row.level >= 1 /\ row.level <= 6
    /\ row.position >= 0

\* the outcome of a run of statements: the database so far, and whether a
\* statement raised
Went(d)      == [ok |-> TRUE, db |-> d, exc |-> "none"]
Failed(d, e) == [ok |-> FALSE, db |-> d, exc |-> e]

\* save_note, the loop over enumerate(note.blocks) from index i on
RECURSIVE SaveBlocks(_, _, _, _)
SaveBlocks(d, note_id, blks, i) ==
    IF i >= Len(blks) THEN Went(d)
    ELSE LET b == blks[i + 1]
             row == [id |-> b.id, note_id |-> note_id, type |-> b.type,
                     items_json |-> "NULL", level |-> b.level,
                     position |-> BlockPosition(i)]
         IN  IF ~HasTypeAndContent(b) THEN SaveBlocks(d, note_id, blks, i + 1)
             ELSE IF ~BlockInsertOk(d, row) THEN Failed(d, "DatabaseError")
             ELSE SaveBlocks([d EXCEPT !.blocks = @ \cup {row}],
                             note_id, blks, i + 1)

\* the id of the tag row with this name, NoneId when there is none
TagIdOf(d, name) ==
    IF \E t \in DOMAIN d.tags : d.tags[t] = name
    THEN CHOOSE t \in DOMAIN d.tags : d.tags[t] = name
    ELSE NoneId

\* tag_name.lower().strip()
NormalizeTag(tag_name) == Strip(Lower(tag_name))

\* _update_note_tags, the loop over set(tags); order is the order in which
\* the set is iterated
RECURSIVE AddTags(_, _, _)
AddTags(d, note_id, order) ==
    IF order = <<>> THEN Went(d)
    ELSE LET tag_name == Head(order)
             name == NormalizeTag(tag_name)
             d1 == IF TagIdOf(d, name) = NoneId
                   THEN [d EXCEPT !.tags = WithRow(d.tags, d.tagSeq + 1, name),
                                  !.tagSeq = d.tagSeq + 1]
                   ELSE d
             tag_id == TagIdOf(d1, name)
         IN  IF Strip(tag_name) = <<>> THEN AddTags(d, note_id, Tail(order))
             ELSE IF note_id \notin DOMAIN d1.notes
                  THEN Failed(d1, "DatabaseError")
             ELSE AddTags([d1 EXCEPT !.note_tags = @ \cup {<<note_id, tag_id>>}],
                          note_id, Tail(order))

\* DatabaseManager._update_note_tags
_update_note_tags(d, note_id, order) ==
    AddTags([d EXCEPT !.note_tags = {nt \in @ : nt[1] # note_id}],
            note_id, order)

\* save_note: `if hasattr(note, 'tags') and note.tags`
TagsGiven(note) == note.tags # {}

\* save_note, the statements run on the connection before conn.commit()
SaveNoteRun(d, note, order) ==
    LET note_id == IF note.id = NoneId THEN NextRowId(d.noteSeq, d.notes)
                   ELSE note.id
        header ==
            IF note.id = NoneId
            THEN IF TopicRefOk(d, note.topic_id) /\ TitleCheckOk(note.title)
                 THEN Went([d EXCEPT !.notes = WithRow(d.notes, note_id,
                                [title |-> note.title, topic_id |-> note.topic_id]),
                                     !.noteSeq = note_id])
                 ELSE Failed(d, "DatabaseError")
            ELSE IF note_id \in DOMAIN d.notes
                    /\ ~(TopicRefOk(d, note.topic_id) /\ TitleCheckOk(note.title))
                 THEN Failed(d, "DatabaseError")
                 ELSE Went([d EXCEPT
                            !.notes = [n \in DOMAIN d.notes |->
                                         IF n = note_id
                                         THEN [title |-> note.title,
                                               topic_id |-> note.topic_id]
                                         ELSE d.notes[n]],
                            !.blocks = {b \in @ : b.note_id # note_id}])
        blks == IF header.ok THEN SaveBlocks(header.db, note_id, note.blocks, 0)
                ELSE header
        tgs == IF blks.ok /\ TagsGiven(note)
               THEN _update_note_tags(blks.db, note_id, order)
               ELSE blks
    IN  [ok |-> tgs.ok, db |-> tgs.db, exc |-> tgs.exc, note_id |-> note_id,
         id_after |-> IF note.id = NoneId /\ ~header.ok THEN NoneId ELSE note_id]

\* Rollback with the statements run so far committed
RollbackKeepsPartial(before, partial) == partial

\* `with self._get_connection() as conn` when the body raised: the connection
\* rolls back; before is the database when the call started, partial the
\* database the statements had produced
Rollback(before, partial) == before

\* what a save returns, and note.id as the caller's object has it afterwards
SaveRet(ret, id_after) ==
    [kind |-> ret.kind, val |-> ret.val, exc |-> ret.exc, id_after |-> id_after]

\* TitleBlank without strip(): only the empty title is refused
TitleEmpty(note) == note.title = <<>>

\* save_note, the guard `not note.title.strip()`
TitleBlank(note) == Strip(note.title) = <<>>

\* DatabaseManager.save_note; order enumerates set(note.tags)
save_note(note, order) ==
    /\ last = Idle
    /\ note.id = NoneId => noteSeq < MaxNoteIds
    /\ IF TitleBlank(note)
       THEN Called("save_note", note, SaveRet(Raised("ValueError"), note.id), DB)
       ELSE LET r == SaveNoteRun(DB, note, order)
            IN  /\ r.db.tagSeq <= MaxTagRows
                /\ IF r.ok
                   THEN Called("save_note", note,
                               SaveRet(Ok(r.note_id), r.id_after), r.db)
                   ELSE Called("save_note", note,
                               SaveRet(Raised(r.exc), r.id_after),
                               Rollback(DB, r.db))
    /\ UNCHANGED ui

\* BlockType(type_str): raises ValueError for a value outside the enumeration
BlockTypeOk(type_str) == type_str \in BlockTypeValues

\* `SELECT ... FROM blocks WHERE note_id = ? ORDER BY position`
RECURSIVE OrderByPosition(_)
OrderByPosition(rows) ==
    IF rows = {} THEN <<>>
    ELSE LET first == CHOOSE r \in rows : \A q \in rows : r.position <= q.position
         IN  <<first>> \o OrderByPosition(rows \ {first})

BlocksOfNote(d, note_id) == OrderByPosition({b \in d.blocks : b.note_id = note_id})

\* the ids of a sequence of rows or of blocks
Ids(rows) == [i \in 1..Len(rows) |-> rows[i].id]

\* the column items_json: NULL, the text json.dumps wrote ("json"), or a text
\* that json.loads rejects with JSONDecodeError ("unparsable")
ItemsJsonValues == {"NULL", "json", "unparsable"}

\* load_note_blocks, the items of one loaded block: the parsed items when
\* items_json is set and parses, the empty list when it is NULL or when
\* json.loads raised (`except json.JSONDecodeError: pass`)
LoadedItems(items_json) == IF items_json = "json" THEN "items" ELSE "empty"

\* DatabaseManager.load_note_blocks: one Block per row, in position order; a
\* stored type outside BlockType raises
LoadNoteBlocks(d, note_id) ==
    LET rows == BlocksOfNote(d, note_id)
    IN  IF \E i \in 1..Len(rows) : ~BlockTypeOk(rows[i].type)
        THEN Raised("ValueError")
        ELSE Ok([i \in 1..Len(rows) |->
                   [id |-> rows[i].id, items |-> LoadedItems(rows[i].items_json)]])

load_note_blocks(note_id) ==
    /\ last = Idle
    /\ Called("load_note_blocks", [note_id |-> note_id],
              LoadNoteBlocks(DB, note_id), DB)
    /\ UNCHANGED ui

\* DatabaseManager.get_note: module database imports Block, BlockType and
\* BlockItem from models but not Note, so `Note(...)` on the row that was found
\* raises NameError
GetNote(d, note_id) ==
    IF note_id <= 0 THEN Raised("ValueError")
    ELSE IF note_id \notin DOMAIN d.notes
         THEN [kind |-> "none", val |-> <<>>, exc |-> "none"]
    ELSE Raised("NameError")

get_note(note_id) ==
    /\ last = Idle
    /\ Called("get_note", [note_id |-> note_id], GetNote(DB, note_id), DB)
    /\ UNCHANGED ui

\* -------------------------------------------------------------- tag index
\* add_tag, the statements: INSERT INTO tags (name), and on the UNIQUE
\* conflict the SELECT of the existing row
AddTagDB(d, name) ==
    IF TagIdOf(d, name) = NoneId
    THEN [d EXCEPT !.tags = WithRow(d.tags, d.tagSeq + 1, name),
                   !.tagSeq = d.tagSeq + 1]
    ELSE d

\* DatabaseManager.add_tag
add_tag(name) ==
    /\ last = Idle
    /\ AddTagDB(DB, name).tagSeq <= MaxTagRows
    /\ Called("add_tag", [name |-> name],
              Ok(TagIdOf(AddTagDB(DB, name), name)), AddTagDB(DB, name))
    /\ UNCHANGED ui

\* DatabaseManager.add_tag_to_note: add_tag commits on its own connection,
\* then INSERT OR IGNORE INTO note_tags; the IntegrityError of a missing note
\* is swallowed
add_tag_to_note(note_id, tag_name) ==
    LET d1 == AddTagDB(DB, tag_name)
        tag_id == TagIdOf(d1, tag_name)
    IN  /\ last = Idle
        /\ d1.tagSeq <= MaxTagRows
        /\ Called("add_tag_to_note", [note_id |-> note_id, tag_name |-> tag_name],
                  Ok(NoneId),
                  IF note_id \in DOMAIN d1.notes
                  THEN [d1 EXCEPT !.note_tags = @ \cup {<<note_id, tag_id>>}]
                  ELSE d1)
        /\ UNCHANGED ui

\* the code point of a character (binary collation of TEXT)
CharCode(c) == CASE c = " " -> 32 [] c = "F" -> 70 [] c = "G" -> 71
                 [] c = "T" -> 84 [] c = "f" -> 102 [] c = "g" -> 103
                 [] c = "t" -> 116 [] c = "u" -> 117 [] OTHER -> 0

RECURSIVE TextLess(_, _)
TextLess(a, b) ==
    IF b = <<>> THEN FALSE
    ELSE IF a = <<>> THEN TRUE
    ELSE IF Head(a) # Head(b) THEN CharCode(Head(a)) < CharCode(Head(b))
    ELSE TextLess(Tail(a), Tail(b))

\* `COUNT(nt.note_id) ... GROUP BY t.id`
UsageCount(d, tag_id) == Cardinality({nt \in d.note_tags : nt[2] = tag_id})

\* `ORDER BY count DESC, t.name`
RECURSIVE OrderByCountName(_)
OrderByCountName(rows) ==
    IF rows = {} THEN <<>>
    ELSE LET first == CHOOSE r \in rows : \A q \in rows :
                         \/ r = q
                         \/ r.count > q.count
                         \/ r.count = q.count /\ TextLess(r.name, q.name)
         IN  <<first>> \o OrderByCountName(rows \ {first})

\* DatabaseManager.get_all_tags
GetAllTags(d) ==
    OrderByCountName({[name |-> d.tags[t], count |-> UsageCount(d, t)] :
                        t \in DOMAIN d.tags})

get_all_tags ==
    /\ last = Idle
    /\ Called("get_all_tags", [none |-> NoneId], Ok(GetAllTags(DB)), DB)
    /\ UNCHANGED ui

\* -------------------------------------------------------------- topic tree
\* `SELECT id, name, parent_id FROM topics ORDER BY name`: the ids of the rows
\* in an order that does not decrease by name; SQL leaves open the order of
\* rows with equal names
NameOrders(tp) ==
    {o \in [1..Cardinality(DOMAIN tp) -> DOMAIN tp] :
        /\ \A t \in DOMAIN tp : \E i \in DOMAIN o : o[i] = t
        /\ \A i, j \in DOMAIN o :
              i < j => ~TextLess(tp[o[j]].name, tp[o[i]].name)}

\* the rows of order whose parent_id is parent, in their order
RECURSIVE Picked(_, _, _)
Picked(order, tp, parent) ==
    IF order = <<>> THEN <<>>
    ELSE IF tp[Head(order)].parent_id = parent
         THEN <<Head(order)>> \o Picked(Tail(order), tp, parent)
         ELSE Picked(Tail(order), tp, parent)

\* get_topics_tree, the tree it builds from the fetched rows: root_topics
\* holds the rows with parent_id None, the `children` list of a topic the rows
\* that name it as parent, each in the order fetched
TopicsTree(tp, order) ==
    [roots |-> Picked(order, tp, NoneId),
     children |-> [t \in DOMAIN tp |-> Picked(order, tp, t)]]

\* DatabaseManager.get_topics_tree
get_topics_tree ==
    /\ last = Idle
    /\ \E order \in NameOrders(topics) :
          Called("get_topics_tree", [none |-> NoneId],
                 Ok(TopicsTree(topics, order)), DB)
    /\ UNCHANGED ui

\* ------------------------------------------------------------------ search
\* the argument tag of search_notes left at its default None
NoTag == <<"None">>

\* `not tag`: None or the empty string
TagFalsy(tag) == tag = NoTag \/ tag = <<>>

\* SearchGuard without strip(): only the empty query counts as no query
SearchGuardEmptyOnly(query, tag) == query = <<>> /\ TagFalsy(tag)

\* search_notes, `if not query.strip() and not tag: return []`
SearchGuard(query, tag) == Strip(query) = <<>> /\ TagFalsy(tag)

\* DatabaseManager.search_notes: past the guard the statement is executed; its
\* select list holds GROUP_CONCAT(DISTINCT tag.name, ', '), which SQLite
\* refuses when it prepares the statement ("DISTINCT aggregates must have
\* exactly one argument"), whatever the WHERE clause; the sqlite3.Error is
\* raised again as DatabaseError
SearchNotes(d, query, tag) ==
    IF SearchGuard(query, tag) THEN Ok(<<>>) ELSE Raised("DatabaseError")

search_notes(query, tag) ==
    /\ last = Idle
    /\ Called("search_notes", [query |-> query, tag |-> tag],
              SearchNotes(DB, query, tag), DB)
    /\ UNCHANGED ui

\* ------------------------------------------------------------------ window
\* "Новая заметка", the title create_new_note gives, and "Без названия", the
\* title save_current_note uses when the title field is empty
NewNoteTitle == <<"N">>
Untitled     == <<"B">>

\* the items of topics_tree that carry a topic id (load_topics and
\* _add_topics_to_tree): the roots of get_topics_tree and what hangs below
TreeItems(tp) == Subtopics(tp, {NoneId}) \ {NoneId}

\* the rows of a note as the Block objects load_note_blocks builds
EditorBlocks(d, note_id) ==
    LET rows == BlocksOfNote(d, note_id)
    IN  [i \in 1..Len(rows) |-> Block(rows[i].id, rows[i].type, rows[i].level)]

\* save_current_note, the Note it builds: the handle, the title field, the
\* topic of the selected tree item, the blocks of the editor, no tags
CurrentNote(handle, title_var) ==
    [id |-> handle,
     title |-> IF title_var = <<>> THEN Untitled ELSE title_var,
     topic_id |-> selection,
     blocks |-> self_blocks,
     tags |-> {}]

\* NoteTakingApp.save_current_note on database d: nothing without a handle;
\* db.save_note otherwise, whose exceptions are caught and shown
SaveCurrentNote(d, note) ==
    IF note.id = NoneId \/ TitleBlank(note) THEN d
    ELSE LET r == SaveNoteRun(d, note, <<>>)
         IN  IF r.ok THEN r.db ELSE Rollback(d, r.db)

\* the handle a switching handler saves under when the save ran after the
\* handle had changed
SavedHandleAfterSwitch(before, after) == after

\* load_note, create_new_note, close_current_note: save_current_note() is the
\* first statement, it runs under the handle it finds
SavedHandle(before, after) == before

\* Ctrl+S, auto_save_loop, schedule_auto_save
save_current_note(title_var) ==
    /\ last = Idle
    /\ Called("save_current_note",
              [title_var |-> title_var, from |-> current_note_id,
               saved |-> current_note_id, selection |-> selection],
              Ok(NoneId),
              SaveCurrentNote(DB, CurrentNote(current_note_id, title_var)))
    /\ UNCHANGED ui

\* NoteTakingApp.on_note_selected and load_note: note_id is an item of
\* notes_list, title_var what the title field holds
load_note(note_id, title_var) ==
    /\ last = Idle
    /\ note_id \in DOMAIN notes
    /\ LET handle == SavedHandle(current_note_id, note_id)
           d1 == SaveCurrentNote(DB, CurrentNote(handle, title_var))
       IN  /\ Called("load_note",
                     [note_id |-> note_id, title_var |-> title_var,
                      from |-> current_note_id, saved |-> handle,
                      selection |-> selection],
                     Ok(NoneId), d1)
           /\ current_note_id' = note_id
           /\ self_blocks' = IF LoadNoteBlocks(d1, note_id).kind = "ok"
                             THEN EditorBlocks(d1, note_id)
                             ELSE self_blocks
    /\ UNCHANGED selection

\* NoteTakingApp.create_new_note: block_id is the uuid4 of the default block
\* that add_new_block puts in the editor
create_new_note(title_var, block_id) ==
    /\ last = Idle
    /\ noteSeq < MaxNoteIds
    /\ \A b \in blocks : b.id # block_id
    /\ \A i \in DOMAIN self_blocks : self_blocks[i].id # block_id
    /\ LET handle == SavedHandle(current_note_id, NextRowId(noteSeq, notes))
           d1 == SaveCurrentNote(DB, CurrentNote(handle, title_var))
           note_id == NextRowId(d1.noteSeq, d1.notes)
           args == [title_var |-> title_var, from |-> current_note_id,
                    saved |-> handle, selection |-> selection]
       IN  IF TopicRefOk(d1, selection)
           THEN /\ Called("create_new_note", args, Ok(note_id),
                          [d1 EXCEPT !.notes = WithRow(d1.notes, note_id,
                                         [title |-> NewNoteTitle,
                                          topic_id |-> selection]),
                                     !.noteSeq = note_id])
                /\ current_note_id' = note_id
                /\ self_blocks' = <<Block(block_id, "text", 1)>>
           ELSE /\ Called("create_new_note", args, Ok(NoneId), d1)
                /\ UNCHANGED <<current_note_id, self_blocks>>
    /\ UNCHANGED selection

\* NoteTakingApp.clear_editor
clear_editor ==
    /\ current_note_id' = NoneId
    /\ self_blocks' = <<>>

\* NoteTakingApp.close_current_note (Ctrl+W)
close_current_note(title_var) ==
    /\ last = Idle
    /\ LET handle == SavedHandle(current_note_id, NoneId)
       IN  Called("close_current_note",
                  [title_var |-> title_var, from |-> current_note_id,
                   saved |-> handle, selection |-> selection],
                  Ok(NoneId),
                  SaveCurrentNote(DB, CurrentNote(handle, title_var)))
    /\ IF current_note_id # NoneId
       THEN clear_editor
       ELSE UNCHANGED <<current_note_id, self_blocks>>
    /\ UNCHANGED selection

\* NoteTakingApp.on_topic_selected: item is the tree item the user picked,
\* NoneId the root item
on_topic_selected(item) ==
    /\ last = Idle
    /\ item \in TreeItems(topics) \cup {NoneId}
    /\ Called("on_topic_selected", [item |-> item], Ok(NoneId), DB)
    /\ selection' = item
    /\ UNCHANGED <<current_note_id, self_blocks>>

\* NoteTakingApp.add_topic from the toolbar: the new topic goes below the
\* selected item; load_topics rebuilds the tree, _select_topic_in_tree selects
\* the new item
add_topic(topic_name) ==
    /\ last = Idle
    /\ topicSeq < MaxTopics
    /\ Strip(topic_name) # <<>>
    /\ LET d1 == [DB EXCEPT !.topics = WithRow(topics, topicSeq + 1,
                                 [name |-> Strip(topic_name),
                                  parent_id |-> selection]),
                            !.topicSeq = topicSeq + 1]
       IN  IF TopicRefOk(d1, selection)
           THEN /\ Called("add_topic", [topic_name |-> topic_name],
                          Ok(topicSeq + 1), d1)
                /\ selection' = topicSeq + 1
           ELSE /\ Called("add_topic", [topic_name |-> topic_name],
                          Ok(NoneId), DB)
                /\ UNCHANGED selection
    /\ UNCHANGED <<current_note_id, self_blocks>>

\* NoteTakingApp.delete_topic, from the context menu of a tree item; action is
\* what ConfirmDeletionDialog returned: "none" (cancelled), "move" or "delete"
NoteTakingApp_delete_topic(topic_id, action) ==
    /\ last = Idle
    /\ topic_id \in TreeItems(topics)
    /\ IF action = "none"
       THEN /\ Called("NoteTakingApp.delete_topic",
                      [topic_id |-> topic_id, action |-> action], Ok(NoneId), DB)
            /\ selection' = topic_id
       ELSE /\ Called("NoteTakingApp.delete_topic",
                      [topic_id |-> topic_id, action |-> action], Ok(NoneId),
                      DeleteTopicDB(DB, topic_id, action = "delete"))
            /\ selection' = NoneId
    /\ UNCHANGED <<current_note_id, self_blocks>>

\* NoteTakingApp.delete_note_with_confirmation: note_id is an item of
\* notes_list, confirm the answer of ConfirmDeletionDialog
delete_note_with_confirmation(note_id, confirm) ==
    /\ last = Idle
    /\ note_id \in DOMAIN notes
    /\ Called("delete_note_with_confirmation",
              [note_id |-> note_id, confirm |-> confirm], Ok(NoneId),
              IF confirm THEN DeleteNoteRows(DB, {note_id}) ELSE DB)
    /\ IF confirm /\ current_note_id = note_id
       THEN clear_editor
       ELSE UNCHANGED <<current_note_id, self_blocks>>
    /\ UNCHANGED selection

\* rename_note with the title written by a save of the whole note: the blocks
\* of the note are deleted as save_note deletes them
RenameBySave(d, note_id, new_title) ==
    [d EXCEPT !.notes[note_id].title = new_title,
              !.blocks = {b \in @ : b.note_id # note_id}]

\* rename_note, `UPDATE notes SET title = ?, updated_at = ... WHERE id = ?`
RenameRow(d, note_id, new_title) ==
    [d EXCEPT !.notes[note_id].title = new_title]

\* NoteTakingApp.rename_note: note_id is an item of notes_list, entry the text
\* of the dialog's field (the empty text when it was cancelled);
\* RenameDialog returns entry.get().strip()
rename_note(note_id, entry) ==
    /\ last = Idle
    /\ note_id \in DOMAIN notes
    /\ LET current_title == notes[note_id].title
           new_title == Strip(entry)
       IN  IF new_title = <<>> \/ new_title = current_title
           THEN Called("rename_note", [note_id |-> note_id, entry |-> entry],
                       Ok(NoneId), DB)
           ELSE IF TitleCheckOk(Strip(new_title))
           THEN Called("rename_note", [note_id |-> note_id, entry |-> entry],
                       Ok(NoneId), RenameRow(DB, note_id, Strip(new_title)))
           ELSE Called("rename_note", [note_id |-> note_id, entry |-> entry],
                       Ok(NoneId), DB)
    /\ UNCHANGED ui

\* move_note_to_topic, `UPDATE notes SET topic_id = ?, updated_at = ...
\* WHERE id = ?` with `topic_id if topic_id != 0 else None`
MoveRow(d, note_id, topic_id) ==
    [d EXCEPT !.notes[note_id].topic_id = topic_id]

\* NoteTakingApp.move_note_to_topic: note_id is an item of notes_list, choice
\* the topic TopicSelectionDialog returned (NoneId for the root). db.get_note
\* runs first and its NameError leaves the handler
move_note_to_topic(note_id, choice) ==
    /\ last = Idle
    /\ note_id \in DOMAIN notes
    /\ LET note == GetNote(DB, note_id)
           args == [note_id |-> note_id, choice |-> choice]
       IN  IF note.kind = "raised"
           THEN Called("move_note_to_topic", args, note, DB)
           ELSE IF note.kind = "none"
           THEN Called("move_note_to_topic", args, Ok(NoneId), DB)
           ELSE IF TopicRefOk(DB, choice)
           THEN Called("move_note_to_topic", args, Ok(NoneId),
                       MoveRow(DB, note_id, choice))
           ELSE Called("move_note_to_topic", args, Ok(NoneId), DB)
    /\ UNCHANGED ui

\* ------------------------------------------------------------------ inputs
TopicNames == {<<"t">>}
TagInputs  == {<<"F">>, <<" ", "f", " ">>, <<" ">>, <<"g">>}
BlockIds   == {"b1", "b2"}
BlockInputs == {Block(id, "text", 1) : id \in BlockIds}

\* tag names handed to save_note in note.tags: one that strip() and lower()
\* both change, one they leave alone, one that is blank
SaveTagInputs == {<<" ", "F">>, <<"g">>, <<" ">>}

TopicIds == 1..MaxTopics
NoteIds  == 1..MaxNoteIds

\* the lists handed over as note.blocks
BlockLists == UNION {[1..n -> BlockInputs] : n \in 0..MaxBlocks}

\* note.tags, as the set of its elements
TagLists == {S \in SUBSET SaveTagInputs : Cardinality(S) <= MaxTags}

\* the orders in which a set can be iterated
Orders(S) == {o \in [1..Cardinality(S) -> S] : \A x \in S : \E i \in DOMAIN o : o[i] = x}

\* the block lists tried with every header: none, one block, a block whose
\* level the schema refuses after one that went in, an object that is no block
\* ahead of a block
FewBlockLists == {<<>>, <<Block("b1", "text", 1)>>,
                  <<Block("b1", "text", 1), Block("b2", "text", 7)>>,
                  <<Object, Block("b1", "text", 1)>>}

\* the Note objects handed to save_note: under the title "u" and no topic any
\* of BlockLists with tags, at most MaxParts together, or one of FewBlockLists
\* and no tag; under the title "t", an empty or blank title or a missing topic
\* one of FewBlockLists and no tag
NoteInputs ==
    {n \in [id : {NoneId} \cup NoteIds, title : {<<"t">>, <<"u">>, <<" ">>, <<>>},
            topic_id : {NoneId, 1}, blocks : BlockLists \cup FewBlockLists,
            tags : TagLists] :
        /\ \/ n.blocks \in BlockLists /\ Len(n.blocks) + Cardinality(n.tags) <= MaxParts
           \/ n.blocks \in FewBlockLists /\ n.tags = {}
        /\ Strip(n.title) = <<>> => n.topic_id = NoneId
        /\ (n.title # <<"u">> \/ n.topic_id = 1)
              => n.tags = {} /\ n.blocks \in FewBlockLists}

\* the Note objects saved over the life of a note: at most one block, the tag
\* "g" or none
LifeInputs ==
    {n \in NoteInputs : /\ n.title = <<"u">> /\ n.topic_id = NoneId
                        /\ n.blocks \in BlockLists /\ Len(n.blocks) <= 1
                        /\ n.tags \subseteq {<<"g">>}}

\* the names of the topics of a tree ("T" sorts before "g" before "t")
TreeNames == {<<"T">>, <<"g">>, <<"t">>}

\* the queries and tags handed to search_notes
Queries    == {<<>>, <<" ">>, <<"t">>, <<"T">>, <<"u">>}
SearchTags == {NoTag, <<>>, <<"g">>, <<"G">>}

\* a text of n characters
TextOfLen(n) == [i \in 1..n |-> "x"]

\* names and titles handed to create_topic and create_note: empty, blank,
\* ordinary, one character over the limit
CreateNames  == {<<>>, <<"t">>, TextOfLen(NAME_MAX_LENGTH + 1)}
CreateTitles == {<<>>, <<" ">>, <<"t">>, TextOfLen(TITLE_MAX_LENGTH + 1)}

\* the Note objects saved to file a note under a topic: no blocks, no tags
FiledInputs ==
    [id : {NoneId} \cup NoteIds, title : {<<"u">>}, topic_id : {NoneId} \cup TopicIds,
     blocks : {<<>>}, tags : {{}}]

\* ----------------------------------------------------------- specifications
\* the specifications of the note store keep MaxNotes rows at a time: a note
\* is created or first saved while there is room
NoteRoom == Cardinality(DOMAIN notes) < MaxNotes

\* DatabaseManager(db_path) on a new file: _init_db has created the empty
\* tables, on a connection that it left open like every other
Init ==
    /\ topics = <<>>
    /\ notes = <<>>
    /\ blocks = {}
    /\ tags = <<>>
    /\ note_tags = {}
    /\ topicSeq = 0
    /\ noteSeq = 0
    /\ tagSeq = 0
    /\ current_note_id = NoneId
    /\ selection = NoneId
    /\ self_blocks = <<>>
    /\ held_open = TRUE
    /\ pre = EmptyDB
    /\ last = Idle
    /\ deleted = {}

\* the database files that DatabaseManager(db_path) may find: one note whose
\* blocks were written by this program or by anything else that keeps the
\* schema, at distinct positions
StoredBlockRows ==
    [id : BlockIds, note_id : {1}, type : {"text"}, items_json : ItemsJsonValues,
     level : {1}, position : 0..(MaxBlocks - 1)]

StoredDBs ==
    {[EmptyDB EXCEPT !.notes = WithRow(<<>>, 1, [title |-> <<"t">>, topic_id |-> NoneId]),
                     !.noteSeq = 1,
                     !.blocks = rows] :
        rows \in {S \in SUBSET StoredBlockRows :
                    \A b1, b2 \in S :
                       (b1.id = b2.id \/ b1.position = b2.position) => b1 = b2}}

InitStored ==
    /\ \E d \in StoredDBs :
          /\ topics = d.topics /\ notes = d.notes /\ blocks = d.blocks
          /\ tags = d.tags /\ note_tags = d.note_tags
          /\ topicSeq = d.topicSeq /\ noteSeq = d.noteSeq /\ tagSeq = d.tagSeq
    /\ current_note_id = NoneId
    /\ selection = NoneId
    /\ self_blocks = <<>>
    /\ held_open = TRUE
    /\ pre = EmptyDB
    /\ last = Idle
    /\ deleted = {}

\* reading the notes of a database file that was found
NextLoad ==
    \/ \E note_id \in NoteIds : load_note_blocks(note_id)
    \/ \E note_id \in NoteIds : get_note(note_id)
    \/ Return

SpecLoad == InitStored /\ [][NextLoad]_vars

\* searching the notes that were created and saved
NextSearch ==
    \/ NoteRoom /\ create_note(<<"t">>, NoneId)
    \/ \E note \in LifeInputs : \E order \in Orders(note.tags) :
          (note.id = NoneId => NoteRoom) /\ save_note(note, order)
    \/ \E query \in Queries, tag \in SearchTags : search_notes(query, tag)
    \/ Return

SpecSearch == Init /\ [][NextSearch]_vars

\* building a forest of topics and listing it
NextTree ==
    \/ \E name \in TreeNames, parent_id \in {NoneId} \cup TopicIds :
          create_topic(name, parent_id)
    \/ get_topics_tree
    \/ Return

SpecTree == Init /\ [][NextTree]_vars

\* creating topics and notes from names and titles of every kind
NextCreate ==
    \/ \E name \in CreateNames : create_topic(name, NoneId)
    \/ \E title \in CreateTitles : NoteRoom /\ create_note(title, NoneId)
    \/ Return

SpecCreate == Init /\ [][NextCreate]_vars

\* the topic store and the notes filed under topics
NextTopic ==
    \/ \E name \in TopicNames, parent_id \in {NoneId} \cup TopicIds :
          create_topic(name, parent_id)
    \/ \E topic_id \in {NoneId} \cup TopicIds :
          NoteRoom /\ create_note(<<"t">>, topic_id)
    \/ \E note \in FiledInputs :
          (note.id = NoneId => NoteRoom) /\ save_note(note, <<>>)
    \/ \E topic_id \in TopicIds, delete_notes \in BOOLEAN :
          delete_topic(topic_id, delete_notes)
    \/ \E topic_id \in TopicIds, confirm \in BOOLEAN :
          _delete_topic_from_context(topic_id, confirm)
    \/ Return

SpecTopic == Init /\ [][NextTopic]_vars

\* the note store: saving and reading headers, blocks and tags of notes
NextNote ==
    \/ NoteRoom /\ create_note(<<"t">>, NoneId)
    \/ \E note \in NoteInputs : \E order \in Orders(note.tags) :
          (note.id = NoneId => NoteRoom) /\ save_note(note, order)
    \/ \E note_id \in NoteIds : load_note_blocks(note_id)
    \/ \E note_id \in NoteIds : get_note(note_id)
    \/ Return

SpecNote == Init /\ [][NextNote]_vars

\* the life of a note: created or first saved, saved again, deleted
NextLife ==
    \/ NoteRoom /\ create_note(<<"t">>, NoneId)
    \/ \E note \in LifeInputs : \E order \in Orders(note.tags) :
          (note.id = NoneId => NoteRoom) /\ save_note(note, order)
    \/ \E note_id \in NoteIds : delete_note(note_id)
    \/ Return

SpecLife == Init /\ [][NextLife]_vars

\* the tag index
NextTag ==
    \/ NoteRoom /\ create_note(<<"t">>, NoneId)
    \/ \E name \in TagInputs : add_tag(name)
    \/ \E note_id \in NoteIds, name \in TagInputs : add_tag_to_note(note_id, name)
    \/ get_all_tags
    \/ Return

SpecTag == Init /\ [][NextTag]_vars

\* the texts typed into the field of RenameDialog
RenameEntries == {<<>>, <<" ">>, <<"u">>, <<" ", "v">>}

\* renaming and moving the notes that were saved with blocks and tags
NextEdit ==
    \/ create_topic(<<"t">>, NoneId)
    \/ \E note \in LifeInputs : \E order \in Orders(note.tags) :
          (note.id = NoneId => NoteRoom) /\ save_note(note, order)
    \/ \E note_id \in NoteIds, entry \in RenameEntries :
          rename_note(note_id, entry)
    \/ \E note_id \in NoteIds, choice \in {NoneId} \cup TopicIds :
          move_note_to_topic(note_id, choice)
    \/ Return

SpecEdit == Init /\ [][NextEdit]_vars

\* the connections of the store while notes are created, saved and deleted
NextConn ==
    \/ NoteRoom /\ create_note(<<"t">>, NoneId)
    \/ \E note \in LifeInputs \cup {n \in NoteInputs : n.title = <<" ">>} :
          \E order \in Orders(note.tags) :
             (note.id = NoneId => NoteRoom) /\ save_note(note, order)
    \/ \E note_id \in NoteIds : delete_note(note_id)
    \/ collect
    \/ Return

SpecConn == Init /\ [][NextConn]_vars

\* NoteTakingApp.__init__ on a new database file: load_topics() shows the
\* root item alone and selects it, create_new_note() stores the first note and
\* opens it with one default block
InitWindow ==
    /\ topics = <<>>
    /\ notes = WithRow(<<>>, 1, [title |-> NewNoteTitle, topic_id |-> NoneId])
    /\ blocks = {}
    /\ tags = <<>>
    /\ note_tags = {}
    /\ topicSeq = 0
    /\ noteSeq = 1
    /\ tagSeq = 0
    /\ current_note_id = 1
    /\ selection = NoneId
    /\ \E block_id \in BlockIds : self_blocks = <<Block(block_id, "text", 1)>>
    /\ held_open = TRUE
    /\ pre = EmptyDB
    /\ last = Idle
    /\ deleted = {}

\* what the title field may hold when a save reads it: the title of the open
\* note as load_note put it there, a title the user typed, or nothing
TitleFields ==
    {<<>>, <<"u">>}
       \cup {notes[n].title : n \in DOMAIN notes \cap {current_note_id}}

\* the answers of ConfirmDeletionDialog for a topic
TopicActions == {"none", "move", "delete"}

\* the editor: notes are created, opened, saved, closed and deleted
NextWindow ==
    \/ \E title_var \in TitleFields, block_id \in BlockIds :
          create_new_note(title_var, block_id)
    \/ \E note_id \in NoteIds, title_var \in TitleFields :
          load_note(note_id, title_var)
    \/ \E title_var \in TitleFields : save_current_note(title_var)
    \/ \E title_var \in TitleFields : close_current_note(title_var)
    \/ \E note_id \in NoteIds, confirm \in BOOLEAN :
          delete_note_with_confirmation(note_id, confirm)
    \/ Return

SpecWindow == InitWindow /\ [][NextWindow]_vars

\* the editor next to the topic tree: topics are added from the toolbar and
\* selected, notes are created, opened, saved and deleted under the title
\* "u", topics are deleted with either notes policy
NextFiling ==
    \/ topicSeq < MaxShownTopics /\ add_topic(<<"t">>)
    \/ \E item \in {NoneId} \cup TopicIds : on_topic_selected(item)
    \/ \E block_id \in BlockIds : create_new_note(<<"u">>, block_id)
    \/ \E note_id \in NoteIds : load_note(note_id, <<"u">>)
    \/ save_current_note(<<"u">>)
    \/ \E note_id \in NoteIds, confirm \in BOOLEAN :
          delete_note_with_confirmation(note_id, confirm)
    \/ \E topic_id \in TopicIds, action \in TopicActions :
          NoteTakingApp_delete_topic(topic_id, action)
    \/ Return

SpecFiling == InitWindow /\ [][NextFiling]_vars

\* the Note objects saved side by side: stored or new, titled "u", without
\* topic and tags, with any of BlockLists
PairInputs ==
    [id : {NoneId} \cup NoteIds, title : {<<"u">>}, topic_id : {NoneId},
     blocks : BlockLists, tags : {{}}]

\* several notes stored at a time, saved with blocks of the same few ids
NextPair ==
    \/ create_note(<<"t">>, NoneId)
    \/ \E note \in PairInputs : save_note(note, <<>>)
    \/ Return

SpecPair == Init /\ [][NextPair]_vars

\* the Note objects saved with references: a topic that may be missing, a
\* block or none; tags are linked by add_tag_to_note
LinkedInputs ==
    [id : {NoneId} \cup NoteIds, title : {<<"u">>},
     topic_id : {NoneId} \cup TopicIds,
     blocks : {<<>>, <<Block("b1", "text", 1)>>}, tags : {{}}]

\* rows that refer to other rows are written and the rows they refer to are
\* deleted
NextLinked ==
    \/ \E parent_id \in {NoneId} \cup TopicIds :
          topicSeq < MaxLinkedTopics /\ create_topic(<<"t">>, parent_id)
    \/ \E note \in LinkedInputs :
          (note.id = NoneId => NoteRoom) /\ save_note(note, <<>>)
    \/ \E note_id \in NoteIds : add_tag_to_note(note_id, <<"g">>)
    \/ \E topic_id \in TopicIds, delete_notes \in BOOLEAN :
          delete_topic(topic_id, delete_notes)
    \/ Return

SpecLinked == Init /\ [][NextLinked]_vars

\* ------------------------------------- notions of the claims on search
\* text contains q as a substring, letter case ignored
Contains(text, q) ==
    \E i \in 1..(Len(text) - Len(q) + 1) :
        Lower(SubSeq(text, i, i + Len(q) - 1)) = Lower(q)

\* the content of a stored block: Block.content is "" by default and every
\* block saved here keeps the default
ContentOf(b) == <<>>

\* the notes of d that a search for query and tag has to return
Matching(d, query, tag) ==
    {n \in DOMAIN d.notes :
        /\ Strip(query) # <<>>
              => \/ Contains(d.notes[n].title, query)
                 \/ \E b \in BlockRowsOf(d, n) : Contains(ContentOf(b), query)
        /\ ~TagFalsy(tag) => Normalized(tag) \in TagNamesOf(d, n)}

\* ------------------------------------- notions of the claim on the tree
\* the members of a sequence
Range(seq) == {seq[i] : i \in DOMAIN seq}

\* the topics that appear in a forest: its roots and whatever hangs below them
RECURSIVE Shown(_, _)
Shown(tree, S) ==
    LET more == UNION {Range(tree.children[t]) : t \in S} \ S
    IN  IF more = {} THEN S ELSE Shown(tree, S \cup more)

\* how often t occurs in the list
Occurrences(seq, t) == Cardinality({i \in DOMAIN seq : seq[i] = t})

\* the list does not decrease by name
OrderedByName(tp, seq) ==
    \A i, j \in DOMAIN seq : i < j => ~TextLess(tp[seq[j]].name, tp[seq[i]].name)

\* ================================================================= claims
\* C1: after delete_topic(T, delete_notes=True) on an existing topic T no note
\* remains that was filed, before the call, under T or under a descendant of T.
C1_CascadeRemovesSubtreeNotes ==
    (last.op = "delete_topic" /\ last.args.delete_notes
        /\ last.args.topic_id \in DOMAIN pre.topics)
    => \A n \in DOMAIN pre.notes :
          InSubtree(pre.topics, last.args.topic_id, pre.notes[n].topic_id)
             => n \notin DOMAIN notes

\* C2: after delete_topic(T, delete_notes=False) on a topic T with child
\* topics no note refers to T or to a topic of T's former subtree, and every
\* note that was filed in that subtree still exists, with topic_id NULL.
C2_MoveToRootClearsSubtree ==
    (last.op = "delete_topic" /\ ~last.args.delete_notes
        /\ \E c \in DOMAIN pre.topics : pre.topics[c].parent_id = last.args.topic_id
        /\ last.args.topic_id \in DOMAIN pre.topics)
    => LET sub == Subtree(pre.topics, {last.args.topic_id})
       IN  /\ \A n \in DOMAIN notes : notes[n].topic_id \notin sub
           /\ \A n \in DOMAIN pre.notes :
                 pre.notes[n].topic_id \in sub
                    => n \in DOMAIN notes /\ notes[n].topic_id = NoneId

\* a topic with a note under a child topic and a note under a grandchild
\* topic was deleted, the notes moved to the root
C2_Witness ==
    /\ last.op = "delete_topic" /\ ~last.args.delete_notes
    /\ last.args.topic_id \in DOMAIN pre.topics
    /\ \E c \in DOMAIN pre.topics, n \in DOMAIN pre.notes :
          /\ pre.topics[c].parent_id = last.args.topic_id
          /\ pre.notes[n].topic_id = c
          /\ n \in DOMAIN notes /\ notes[n].topic_id = NoneId

\* C7: delete_topic on an existing topic removes the topic and every topic
\* below it along parent_id, for both values of delete_notes.
C7_DeleteRemovesSubtreeTopics ==
    (last.op = "delete_topic" /\ last.args.topic_id \in DOMAIN pre.topics)
    => /\ last.ret = Ok(1)
       /\ \A t \in DOMAIN pre.topics :
             InSubtree(pre.topics, last.args.topic_id, t) => t \notin DOMAIN topics

\* a topic with a child and a grandchild was deleted
C7_Witness ==
    /\ last.op = "delete_topic"
    /\ \E c, g \in DOMAIN pre.topics :
          /\ last.args.topic_id \in DOMAIN pre.topics
          /\ pre.topics[c].parent_id = last.args.topic_id
          /\ pre.topics[g].parent_id = c
          /\ {last.args.topic_id, c, g} \cap DOMAIN topics = {}

\* C3: a save_note that raises commits nothing: the note rows, the block rows,
\* the tag rows and the note-tag links are what they were before the call.
C3_FailedSaveCommitsNothing ==
    (last.op = "save_note" /\ last.ret.kind = "raised")
    => /\ notes = pre.notes
       /\ blocks = pre.blocks
       /\ note_tags = pre.note_tags
       /\ tags = pre.tags

\* a save of a stored note failed at a block after its statements had already
\* rewritten the header and replaced the blocks
C3_Witness ==
    /\ last.op = "save_note" /\ last.ret.exc = "DatabaseError"
    /\ last.args.id \in DOMAIN pre.notes
    /\ last.args.tags = {}
    /\ BlockRowsOf(pre, last.args.id) # {}
    /\ SaveNoteRun(pre, last.args, <<>>).db.notes # pre.notes
    /\ SaveNoteRun(pre, last.args, <<>>).db.blocks # pre.blocks

\* C4: after save_note of a stored note the names of the tags linked to the
\* note are exactly the normalized non-blank names of note.tags; with an empty
\* note.tags the note has no tag left.
C4_SaveReplacesTags ==
    (last.op = "save_note" /\ last.ret.kind = "ok"
        /\ last.args.id \in DOMAIN pre.notes)
    => TagNamesOf(DB, last.args.id)
          = {Normalized(t) : t \in {x \in last.args.tags : Strip(x) # <<>>}}

\* C5: after a save_note that returned, get_note of the saved id returns the
\* blocks of note.blocks in their order, the blocks without type or content
\* left out.
C5_SaveGetRoundTrip ==
    (last.op = "save_note" /\ last.ret.kind = "ok"
        /\ last.ret.val \in DOMAIN notes)
    => /\ GetNote(DB, last.ret.val).kind = "ok"
       /\ GetNote(DB, last.ret.val).val
             = Ids(SelectSeq(last.args.blocks, HasTypeAndContent))

\* C6: the positions of the block rows of each note are 0..n-1 for its n
\* rows, and no two rows of a note share a position.
C6_PositionsContiguous ==
    \A n \in DOMAIN notes :
        /\ {b.position : b \in BlockRowsOf(DB, n)}
              = 0..(Cardinality(BlockRowsOf(DB, n)) - 1)
        /\ \A b1, b2 \in BlockRowsOf(DB, n) :
              b1.position = b2.position => b1 = b2

\* C8: add_tag stores and looks up the normalized name: the id it returns is
\* the row of the normalized name, and no two rows have the same normalized
\* name.
C8_AddTagNormalizes ==
    last.op = "add_tag"
    => /\ last.ret.val \in DOMAIN tags
       /\ tags[last.ret.val] = Normalized(last.args.name)
       /\ \A t1, t2 \in DOMAIN tags :
             Normalized(tags[t1]) = Normalized(tags[t2]) => t1 = t2

\* C9: after add_tag_to_note on a stored note there is one tag row for the
\* normalized name, it is linked to the note, and get_all_tags reports for it
\* the number of notes it was attached to (1 when it is this note only).
C9_SpellingsShareOneTag ==
    (last.op = "add_tag_to_note" /\ last.args.note_id \in DOMAIN notes)
    => LET nm == Normalized(last.args.tag_name)
           rows == {t \in DOMAIN tags : Normalized(tags[t]) = nm}
           users == {m \in DOMAIN notes : \E t \in rows : <<m, t>> \in note_tags}
       IN  /\ Cardinality(rows) = 1
           /\ \A t \in rows : tags[t] = nm /\ <<last.args.note_id, t>> \in note_tags
           /\ \E i \in 1..Len(GetAllTags(DB)) :
                 GetAllTags(DB)[i] = [name |-> nm, count |-> Cardinality(users)]

\* C10: delete_note returns True exactly when the note existed; afterwards
\* there is no note row, block row or note-tag link of that id; for an id that
\* does not exist it returns False and the database is as before.
C10_DeleteNoteCascades ==
    last.op = "delete_note"
    => /\ last.ret.kind = "ok"
       /\ (last.ret.val = 1) = (last.args.note_id \in DOMAIN pre.notes)
       /\ last.args.note_id \notin DOMAIN notes
       /\ BlockRowsOf(DB, last.args.note_id) = {}
       /\ \A nt \in note_tags : nt[1] # last.args.note_id
       /\ last.args.note_id \notin DOMAIN pre.notes
             => last.ret.val = 0 /\ DB = pre

\* a stored note with a block and a tag was deleted
C10_Witness ==
    /\ last.op = "delete_note" /\ last.ret.val = 1
    /\ BlockRowsOf(pre, last.args.note_id) # {}
    /\ \E nt \in pre.note_tags : nt[1] = last.args.note_id

\* C11: when the first save_note of a note without id raises, no note row and
\* no block row is stored and note.id of the caller's object is still None.
C11_FailedFirstSaveStaysUnsaved ==
    (last.op = "save_note" /\ last.args.id = NoneId /\ last.ret.kind = "raised")
    => /\ notes = pre.notes
       /\ blocks = pre.blocks
       /\ last.ret.id_after = NoneId

\* C12: a note id whose row was removed never has a row again, whatever is
\* created or saved afterwards.
C12_DeletedIsTerminal == deleted \cap DOMAIN notes = {}

\* after a note was deleted a new note was stored by a first save
C12_Witness ==
    /\ last.op = "save_note" /\ last.args.id = NoneId /\ last.ret.kind = "ok"
    /\ deleted # {}
    /\ last.ret.val \in DOMAIN notes

\* C13: a save_note whose header is acceptable and whose valid blocks have
\* ids that are distinct and free returns normally although note.blocks holds
\* an invalid block: the header is stored and the stored blocks of the note
\* are the valid blocks of note.blocks.
C13_InvalidBlockOnlyOmitted ==
    LET blks == last.args.blocks
        valid == {i \in DOMAIN blks : BlockValidates(blks[i])}
    IN  (/\ last.op = "save_note"
         /\ Strip(last.args.title) # <<>>
         /\ TopicRefOk(pre, last.args.topic_id)
         /\ last.args.id = NoneId \/ last.args.id \in DOMAIN pre.notes
         /\ valid # DOMAIN blks
         /\ \A i, j \in valid : blks[i].id = blks[j].id => i = j
         /\ \A i \in valid : \A b \in pre.blocks :
                b.id = blks[i].id => b.note_id = last.args.id)
        => /\ last.ret.kind = "ok"
           /\ notes[last.ret.val].title = last.args.title
           /\ {b.id : b \in BlockRowsOf(DB, last.ret.val)}
                 = {blks[i].id : i \in valid}

\* C14: loading a stored note that has a block with unparsable item data
\* returns normally, and returns the other blocks of the note in position
\* order, without that block.
C14_UnparsableBlockSkipped ==
    (/\ last.op \in {"load_note_blocks", "get_note"}
     /\ last.args.note_id \in DOMAIN notes
     /\ \E b \in BlockRowsOf(DB, last.args.note_id) : b.items_json = "unparsable")
    => /\ last.ret.kind = "ok"
       /\ Ids(last.ret.val)
             = Ids(OrderByPosition({b \in BlockRowsOf(DB, last.args.note_id) :
                                       b.items_json # "unparsable"}))

\* C15: delete_topic of an id that has no topic row raises (it does not
\* return a value) and leaves the topic rows and the note rows as they were.
C15_DeleteMissingTopicRaises ==
    (last.op = "delete_topic" /\ last.args.topic_id \notin DOMAIN pre.topics)
    => /\ last.ret.kind = "raised"
       /\ topics = pre.topics
       /\ notes = pre.notes

\* C16: create_topic with a parent_id that has no row and create_note with a
\* topic_id that has no row raise and add no row; in every state each
\* parent_id and each topic_id is NULL or the id of a topic row.
C16_NoDanglingTopicRef ==
    /\ (last.op = "create_topic" /\ last.args.parent_id # NoneId
            /\ last.args.parent_id \notin DOMAIN pre.topics)
          => last.ret.kind = "raised" /\ topics = pre.topics
    /\ (last.op = "create_note" /\ last.args.topic_id # NoneId
            /\ last.args.topic_id \notin DOMAIN pre.topics)
          => last.ret.kind = "raised" /\ notes = pre.notes
    /\ \A t \in DOMAIN topics :
          topics[t].parent_id = NoneId \/ topics[t].parent_id \in DOMAIN topics
    /\ \A n \in DOMAIN notes :
          notes[n].topic_id = NoneId \/ notes[n].topic_id \in DOMAIN topics

\* C17: create_topic with an empty name or a name over NAME_MAX_LENGTH and
\* create_note with an empty title or a title over TITLE_MAX_LENGTH raise and
\* add no row.
C17_CreateValidates ==
    /\ (last.op = "create_topic"
            /\ (last.args.name = <<>> \/ Len(last.args.name) > NAME_MAX_LENGTH))
          => last.ret.kind = "raised" /\ topics = pre.topics
    /\ (last.op = "create_note"
            /\ (last.args.title = <<>> \/ Len(last.args.title) > TITLE_MAX_LENGTH))
          => last.ret.kind = "raised" /\ notes = pre.notes

\* C18: save_note with an empty or whitespace-only title raises ValueError
\* from its guard, before any statement: every table is as before the call and
\* no note id was issued.
C18_BlankTitleRefused ==
    (last.op = "save_note" /\ Strip(last.args.title) = <<>>)
    => /\ last.ret.kind = "raised" /\ last.ret.exc = "ValueError"
       /\ DB = pre
       /\ last.ret.id_after = last.args.id

\* a stored note with blocks was saved again with a whitespace-only title and
\* with other blocks
C18_Witness ==
    /\ last.op = "save_note" /\ last.ret.exc = "ValueError"
    /\ last.args.title = <<" ">>
    /\ last.args.id \in DOMAIN notes
    /\ BlockRowsOf(DB, last.args.id) # {}
    /\ last.args.blocks # <<>>

\* C19: search_notes with an empty or whitespace-only query and no tag returns
\* the empty list, whatever notes are stored.
C19_BlankSearchIsEmpty ==
    (last.op = "search_notes" /\ Strip(last.args.query) = <<>>
        /\ last.args.tag = NoTag)
    => last.ret = Ok(<<>>)

\* a whitespace-only query without tag was searched while a note with a tag
\* is stored
C19_Witness ==
    /\ last.op = "search_notes" /\ last.args.query = <<" ">>
    /\ last.args.tag = NoTag
    /\ last.ret.kind = "ok"
    /\ note_tags # {}

\* C20: search_notes with a non-blank query or with a tag returns the ids of
\* exactly the notes that contain the query in their title or in the content
\* of one of their blocks (when the query is non-blank) and that are linked to
\* the normalized tag name (when a tag is given), each id once.
C20_SearchReturnsMatches ==
    (last.op = "search_notes"
        /\ (Strip(last.args.query) # <<>> \/ ~TagFalsy(last.args.tag)))
    => /\ last.ret.kind = "ok"
       /\ {last.ret.val[i].id : i \in DOMAIN last.ret.val}
             = Matching(DB, last.args.query, last.args.tag)
       /\ \A i, j \in DOMAIN last.ret.val :
             last.ret.val[i].id = last.ret.val[j].id => i = j

\* C21: a search_notes that has notes to return returns for each of them a
\* summary whose tags are all the tag names linked to the note, also when the
\* search was restricted by a tag.
C21_SummaryListsAllTags ==
    (last.op = "search_notes"
        /\ (Strip(last.args.query) # <<>> \/ ~TagFalsy(last.args.tag))
        /\ Matching(DB, last.args.query, last.args.tag) # {})
    => /\ last.ret.kind = "ok"
       /\ \A n \in Matching(DB, last.args.query, last.args.tag) :
             \E i \in DOMAIN last.ret.val :
                /\ last.ret.val[i].id = n
                /\ last.ret.val[i].tags = TagNamesOf(DB, n)

\* C22: in every state the parent relation of the topics is acyclic: no topic
\* is among its own ancestors.
C22_ParentRelationAcyclic ==
    \A t \in DOMAIN topics : t \notin Ancestors(topics, t)

\* C23: get_topics_tree returns a forest in which every stored topic appears
\* exactly once, at the top level when its parent_id is NULL and else among
\* the children of the topic its parent_id names, every sibling group ordered
\* by name.
C23_TreeShowsEveryTopicOnce ==
    last.op = "get_topics_tree"
    => LET tree == last.ret.val
           shown == Shown(tree, Range(tree.roots))
       IN  /\ shown = DOMAIN topics
           /\ \A t \in DOMAIN topics :
                 /\ Occurrences(tree.roots, t)
                       = (IF topics[t].parent_id = NoneId THEN 1 ELSE 0)
                 /\ \A p \in shown :
                       Occurrences(tree.children[p], t)
                          = (IF topics[t].parent_id = p THEN 1 ELSE 0)
           /\ OrderedByName(topics, tree.roots)
           /\ \A p \in shown : OrderedByName(topics, tree.children[p])

C25_ConnectionsReleased ==
    last.op # "idle" => ~held_open

\* the handlers that switch the displayed note
Switching == {"load_note", "create_new_note", "close_current_note"}

\* C26: when load_note, create_new_note or close_current_note runs while a
\* note is displayed, the save it issues runs under the handle of that note,
\* before the handle changes: when that note is stored, its title afterwards
\* is what the title field held.
C26_SaveBeforeSwitch ==
    (last.op \in Switching /\ last.args.from # NoneId)
    => /\ last.args.saved = last.args.from
       /\ last.args.from \in DOMAIN pre.notes
             => /\ last.args.from \in DOMAIN notes
                /\ notes[last.args.from].title
                      = (IF last.args.title_var = <<>> THEN Untitled
                         ELSE last.args.title_var)

\* another note was opened while a note with an edited title was displayed:
\* the title went to the note that was displayed, and the handle moved on
C26_Witness ==
    /\ last.op = "load_note"
    /\ last.args.from # NoneId
    /\ last.args.note_id # last.args.from
    /\ last.args.from \in DOMAIN pre.notes
    /\ pre.notes[last.args.from].title # <<"u">>
    /\ notes[last.args.from].title = <<"u">>
    /\ current_note_id = last.args.note_id

\* C27: in every state of the window current_note_id is None or the id of a
\* note that is stored.
C27_CurrentNoteExists ==
    current_note_id = NoneId \/ current_note_id \in DOMAIN notes

\* the handlers that run save_current_note
Saving == {"save_current_note", "load_note", "create_new_note",
           "close_current_note"}

\* C28: a save of the open note from the editor, whether asked for or issued
\* before a switch, leaves the stored topic_id of that note as it was,
\* whichever tree item is selected.
C28_SaveKeepsTopic ==
    (last.op \in Saving /\ last.args.from \in DOMAIN pre.notes
        /\ last.args.from \in DOMAIN notes)
    => notes[last.args.from].topic_id = pre.notes[last.args.from].topic_id

\* the note object handed to save_note holds a block whose id is stored under
\* another note than the one the save writes
ClashesWithOtherNote(d, note) ==
    \E i \in DOMAIN note.blocks : \E b \in d.blocks :
        /\ note.blocks[i].kind = "Block"
        /\ b.id = note.blocks[i].id
        /\ b.note_id # note.id

\* C29: no two stored blocks have the same id, and a save_note of a note that
\* holds a block id stored under a different note raises and leaves the rows
\* of blocks, of every note, as they were.
C29_BlockIdsUniqueAcrossNotes ==
    /\ \A b1, b2 \in blocks : b1.id = b2.id => b1 = b2
    /\ (last.op = "save_note" /\ ClashesWithOtherNote(pre, last.args))
       => /\ last.ret.kind = "raised"
          /\ blocks = pre.blocks
          /\ notes = pre.notes

\* a stored note that has a block of its own was saved with a block id of
\* another stored note
C29_Witness ==
    /\ last.op = "save_note"
    /\ ClashesWithOtherNote(pre, last.args)
    /\ last.args.id \in DOMAIN pre.notes
    /\ \E b \in pre.blocks : b.note_id = last.args.id
    /\ \E b \in pre.blocks : b.note_id # last.args.id
    /\ last.ret.kind = "raised"

\* C30: in every state each block row names a stored note, each link of
\* note_tags a stored note and a stored tag, each topic_id of a note and each
\* parent_id of a topic is NULL or names a stored topic.
C30_NoDanglingReferences ==
    /\ \A b \in blocks : b.note_id \in DOMAIN notes
    /\ \A nt \in note_tags : nt[1] \in DOMAIN notes /\ nt[2] \in DOMAIN tags
    /\ \A n \in DOMAIN notes :
          notes[n].topic_id = NoneId \/ notes[n].topic_id \in DOMAIN topics
    /\ \A t \in DOMAIN topics :
          topics[t].parent_id = NoneId \/ topics[t].parent_id \in DOMAIN topics

\* a topic was deleted that had a subtopic and a note filed under it, the note
\* with a block and a tag
C30_Witness ==
    /\ last.op = "delete_topic"
    /\ last.args.topic_id \in DOMAIN pre.topics
    /\ \E t \in DOMAIN pre.topics :
          t # last.args.topic_id /\ pre.topics[t].parent_id = last.args.topic_id
    /\ \E n \in DOMAIN pre.notes :
          /\ pre.notes[n].topic_id = last.args.topic_id
          /\ \E b \in pre.blocks : b.note_id = n
          /\ \E nt \in pre.note_tags : nt[1] = n

====
